---------------------------- MODULE Spec2Model ----------------------------
(***************************************************************************)
(* ipng2iff: conversion of an indexed PNG into an IFF/ILBM file.           *)
(*                                                                         *)
(* src/src/main.rs      main: from_png_file, File::create, write           *)
(* src/src/iffimage.rs  IffImage: from_png_file, write, get_bmhd,          *)
(*                      get_cmap, get_body, get_ilbm                       *)
(*                                                                         *)
(* Bytes are naturals in 0..255, byte vectors are sequences of bytes.      *)
(* An Option is a sequence of length 0 (None) or 1 (Some).                 *)
(***************************************************************************)
EXTENDS Integers, Sequences, FiniteSets, TLC

VARIABLES
    pc,        \* position of main / write
    png,       \* what the png decoder hands to from_png_file
    iff,       \* Option<IffImage>: the record from_png_file returned
    err,       \* the error (or panic) that ended the run, "" when none
    created,   \* File::create(outfile) has run and succeeded
    ilbm,      \* write's local `ilbm`
    v_bmhd,    \* get_ilbm's local `bmhd`
    v_cmap,    \* get_ilbm's local `cmap`
    v_body,    \* get_ilbm's local `body`
    offered,   \* the bytes write has passed to writer.write, in order
    sink       \* the bytes the writer has accepted, in order

vars == <<pc, png, iff, err, created, ilbm, v_bmhd, v_cmap, v_body, offered, sink>>

(***************************************************************************)
(* Bounds of the model.                                                    *)
(***************************************************************************)
MaxWidth == 17
MaxHeight == 2
MaxBitplanes == 8
MaxColors == 6
MaxShort == 1
MaxPaletteLen == 771
MaxPixels == 4

(***************************************************************************)
(* Integer helpers: casts and byte encodings.                              *)
(***************************************************************************)
AsU8(v) == v % 256

AsU16(v) == v % 65536

\* v mod 2^32, on 16-bit halves
AsU32(v) == (v % 65536) + 65536 * ((v \div 65536) % 65536)

\* i16 -> its two's complement bit pattern
I16Bits(v) == IF v < 0 THEN v + 65536 ELSE v

U16BeBytes(v) == << v \div 256, v % 256 >>

I16BeBytes(v) == U16BeBytes(I16Bits(v))

U32BeBytes(v) ==
    << v \div 16777216, (v \div 65536) % 256, (v \div 256) % 256, v % 256 >>

RECURSIVE BitAnd(_, _)
BitAnd(a, b) ==
    IF a = 0 \/ b = 0 THEN 0
    ELSE (a % 2) * (b % 2) + 2 * BitAnd(a \div 2, b \div 2)

\* 2i32.pow(e)
Pow2I32(e) == 2 ^ e

\* b"FORM", b"ILBM", b"BMHD", b"CMAP", b"BODY"
TagFORM == << 70, 79, 82, 77 >>
TagILBM == << 73, 76, 66, 77 >>
TagBMHD == << 66, 77, 72, 68 >>
TagCMAP == << 67, 77, 65, 80 >>
TagBODY == << 66, 79, 68, 89 >>

(***************************************************************************)
(* IffImage::get_bmhd                                                      *)
(***************************************************************************)
\* the fault of pushing height before width
get_bmhd_swapped(self) ==
    LET h == self.bmhd IN
        U16BeBytes(h.height) \o U16BeBytes(h.width)
     \o I16BeBytes(h.x) \o I16BeBytes(h.y)
     \o << h.bitplanes, h.masking, h.compression, 0 >>
     \o U16BeBytes(h.transparent_color)
     \o << h.x_aspect, h.y_aspect >>
     \o U16BeBytes(h.page_width) \o U16BeBytes(h.page_height)

get_bmhd(self) ==
    LET h == self.bmhd IN
        U16BeBytes(h.width) \o U16BeBytes(h.height)
     \o I16BeBytes(h.x) \o I16BeBytes(h.y)
     \o << h.bitplanes, h.masking, h.compression, 0 >>
     \o U16BeBytes(h.transparent_color)
     \o << h.x_aspect, h.y_aspect >>
     \o U16BeBytes(h.page_width) \o U16BeBytes(h.page_height)

(***************************************************************************)
(* IffImage::get_cmap: the fold pushes r, g, b of each color in turn, so   *)
(* byte j (1-based) is channel (j-1) % 3 of color (j-1) / 3.               *)
(***************************************************************************)
CmapFold(colors) ==
    [j \in 1..(3 * Len(colors)) |->
        LET color == colors[((j - 1) \div 3) + 1]
        IN  << color.r, color.g, color.b >>[((j - 1) % 3) + 1]]

\* the fault of pushing the channels in the order b, g, r
CmapFoldBGR(colors) ==
    [j \in 1..(3 * Len(colors)) |->
        LET color == colors[((j - 1) \div 3) + 1]
        IN  << color.b, color.g, color.r >>[((j - 1) % 3) + 1]]

get_cmap_bgr(self) == CmapFoldBGR(self.cmap.colors)

get_cmap(self) == CmapFold(self.cmap.colors)

(***************************************************************************)
(* IffImage::get_body: the four nested loops.  pixel_index is 0-based as   *)
(* in the source; sequences are 1-based.                                   *)
(***************************************************************************)
\* for bit in 0..8: value |= 1 << (7 - bit) when the pixel has the plane's bit
\* (BitLoopLsbFirst: the fault of 1 << bit, leftmost pixel in the lowest bit)
RECURSIVE BitLoopLsbFirst(_, _, _, _)
BitLoopLsbFirst(self, bpl, pixel_index, bit) ==
    IF bit = 8 THEN 0
    ELSE (IF BitAnd(self.pixels[pixel_index + 1], AsU8(Pow2I32(bpl))) # 0
          THEN 2 ^ bit ELSE 0)
         + BitLoopLsbFirst(self, bpl, pixel_index + 1, bit + 1)

RECURSIVE BitLoop(_, _, _, _)
BitLoop(self, bpl, pixel_index, bit) ==
    IF bit = 8 THEN 0
    ELSE (IF BitAnd(self.pixels[pixel_index + 1], AsU8(Pow2I32(bpl))) # 0
          THEN 2 ^ (7 - bit) ELSE 0)
         + BitLoop(self, bpl, pixel_index + 1, bit + 1)

\* for row_index in 0..width / 8: row[row_index] = value
RECURSIVE RowLoop(_, _, _, _)
RowLoop(self, bpl, pixel_index, row_index) ==
    IF row_index = self.bmhd.width \div 8 THEN << >>
    ELSE << BitLoop(self, bpl, pixel_index, 0) >>
         \o RowLoop(self, bpl, pixel_index + 8, row_index + 1)

\* for bpl in 0..bitplanes: v.extend_from_slice(&row)
\* (PlaneLoopInclusive: the fault of 0..=bitplanes, one plane too many)
RECURSIVE PlaneLoopInclusive(_, _, _)
PlaneLoopInclusive(self, row_pixel_index, bpl) ==
    IF bpl = self.bmhd.bitplanes + 1 THEN << >>
    ELSE RowLoop(self, bpl, row_pixel_index, 0)
         \o PlaneLoopInclusive(self, row_pixel_index, bpl + 1)

RECURSIVE PlaneLoop(_, _, _)
PlaneLoop(self, row_pixel_index, bpl) ==
    IF bpl = self.bmhd.bitplanes THEN << >>
    ELSE RowLoop(self, bpl, row_pixel_index, 0)
         \o PlaneLoop(self, row_pixel_index, bpl + 1)

\* for _y in 0..height: row_pixel_index += width
RECURSIVE YLoop(_, _, _)
YLoop(self, row_pixel_index, y) ==
    IF y = self.bmhd.height THEN << >>
    ELSE PlaneLoop(self, row_pixel_index, 0)
         \o YLoop(self, row_pixel_index + self.bmhd.width, y + 1)

get_body(self) == YLoop(self, 0, 0)

(***************************************************************************)
(* IffImage::get_ilbm                                                      *)
(***************************************************************************)
\* the fault of padding an odd payload to even length, as IFF readers expect,
\* without counting the pad byte
EvenPad(payload) == IF Len(payload) % 2 = 1 THEN payload \o << 0 >> ELSE payload

AssemblePadded(bmhd, cmap, body) ==
       TagILBM
    \o TagBMHD \o U32BeBytes(AsU32(Len(bmhd))) \o EvenPad(bmhd)
    \o TagCMAP \o U32BeBytes(AsU32(Len(cmap))) \o EvenPad(cmap)
    \o TagBODY \o U32BeBytes(AsU32(Len(body))) \o EvenPad(body)

Assemble(bmhd, cmap, body) ==
       TagILBM
    \o TagBMHD \o U32BeBytes(AsU32(Len(bmhd))) \o bmhd
    \o TagCMAP \o U32BeBytes(AsU32(Len(cmap))) \o cmap
    \o TagBODY \o U32BeBytes(AsU32(Len(body))) \o body

get_ilbm(self) == Assemble(get_bmhd(self), get_cmap(self), get_body(self))


(***************************************************************************)
(* Values of the state.                                                    *)
(***************************************************************************)
None == << >>

Some(x) == << x >>

NoErr == [kind |-> "", arg |-> << >>]

Error(kind, arg) == [kind |-> kind, arg |-> arg]

NoPng ==
    [open |-> "none", color_type |-> "none", palette |-> None,
     width |-> 0, height |-> 0, frame |-> "none", buf |-> << >>]

(***************************************************************************)
(* IffImage::from_png_file.  The decoder's product `png`:                  *)
(*   open       "ok" | "io_error" (File::open) | "decode_error" (read_info)*)
(*   color_type frame_info.color_type                                      *)
(*   palette    frame_info.palette: Option of the PLTE bytes               *)
(*   width, height  info.width, info.height                                *)
(*   frame      "ok" | "decode_error" (next_frame)                         *)
(*   buf        the frame, three bytes a pixel                             *)
(* The result is Ok(image), Err(error) or a panic (an index out of bounds).*)
(***************************************************************************)
Ok(image) == [tag |-> "Ok", image |-> Some(image), err |-> NoErr]

Err(e) == [tag |-> "Err", image |-> None, err |-> e]

Panic == [tag |-> "Panic", image |-> None, err |-> Error("panic", << >>)]

\* slice.chunks(3): chunks of three, the last one shorter when 3 does not divide
Chunks3(bytes) ==
    [i \in 1..((Len(bytes) + 2) \div 3) |->
        SubSeq(bytes, 3 * i - 2, IF 3 * i <= Len(bytes) THEN 3 * i ELSE Len(bytes))]

RECURSIVE FloorLog2(_)
FloorLog2(n) == IF n < 2 THEN 0 ELSE 1 + FloorLog2(n \div 2)

\* (n as f32).log2().ceil() as u8, for n < 2^24 (exact as f32): log2 of a
\* power of two is exact, any other n lies strictly between two integers,
\* and log2(0) = -inf saturates to 0 in the cast
\* (Log2CeilFloor: the fault of floor() for ceil())
Log2CeilFloor(n) == IF n = 0 THEN 0 ELSE FloorLog2(n)

Log2CeilAsU8(n) ==
    IF n = 0 THEN 0
    ELSE IF 2 ^ FloorLog2(n) = n THEN FloorLog2(n) ELSE FloorLog2(n) + 1

SameColor(pixel, color) ==
    pixel[1] = color.r /\ pixel[2] = color.g /\ pixel[3] = color.b

Least(S) == CHOOSE i \in S : \A j \in S : i <= j

Greatest(S) == CHOOSE i \in S : \A j \in S : i >= j

\* cmap.colors.iter().position(|color| pixel == color): the 0-based index
\* of the first equal color, or -1 for None
\* (PositionLast: the fault of rposition, the last equal color)
PositionLast(colors, pixel) ==
    LET hits == {i \in 1..Len(colors) : SameColor(pixel, colors[i])}
    IN  IF hits = {} THEN -1 ELSE Greatest(hits) - 1

Position(colors, pixel) ==
    LET hits == {i \in 1..Len(colors) : SameColor(pixel, colors[i])}
    IN  IF hits = {} THEN -1 ELSE Least(hits) - 1

\* pixels.clone().find(|p| p.is_err()) over the lazy map of buf.chunks(3):
\* the first pixel that is short (the closure panics) or has no color
\* (InvalidPixel) decides; 0 when there is none
FirstBadPixel(colors, chunks) ==
    LET bads == {i \in 1..Len(chunks) :
                    Len(chunks[i]) < 3 \/ Position(colors, chunks[i]) = -1}
    IN  IF bads = {} THEN 0 ELSE Least(bads)

MapPixels(img, palette, num_colors, bitplanes) ==
    LET pchunks == Chunks3(palette)
        cmap == [colors |-> [i \in 1..Len(pchunks) |->
                    [r |-> pchunks[i][1], g |-> pchunks[i][2], b |-> pchunks[i][3]]]]
        chunks == Chunks3(img.buf)
        bad == FirstBadPixel(cmap.colors, chunks)
    IN  IF img.frame # "ok" THEN Err(Error("PngDecodeError", << >>))
        ELSE IF bad # 0 /\ Len(chunks[bad]) < 3 THEN Panic
        ELSE IF bad # 0 THEN Err(Error("InvalidPixel", chunks[bad]))
        ELSE Ok([bmhd |-> [width |-> AsU16(img.width), height |-> AsU16(img.height),
                           x |-> 0, y |-> 0, bitplanes |-> bitplanes,
                           masking |-> 0, compression |-> 0, pad1 |-> 0,
                           transparent_color |-> 0, x_aspect |-> 0, y_aspect |-> 0,
                           page_width |-> AsU16(img.width),
                           page_height |-> AsU16(img.height)],
                 cmap |-> cmap,
                 pixels |-> [i \in 1..Len(chunks) |->
                                AsU8(Position(cmap.colors, chunks[i]))]])

from_png_file(img) ==
    IF img.open = "io_error" THEN Err(Error("IoError", << >>))
    ELSE IF img.open = "decode_error" THEN Err(Error("PngDecodeError", << >>))
    ELSE IF img.color_type # "Indexed" THEN Err(Error("WrongColorType", << >>))
    ELSE IF img.palette = None THEN Err(Error("NoPalette", << >>))
    ELSE IF Len(img.palette[1]) = 0 THEN Err(Error("EmptyPalette", << >>))
    ELSE LET palette == img.palette[1]
             num_colors == Len(palette) \div 3
             bitplanes == Log2CeilAsU8(num_colors)
         IN  IF num_colors > 255 THEN Err(Error("TooManyColors", << num_colors >>))
             \* chunks(3).map(|c| Color { r: c[0], g: c[1], b: c[2] }) panics
             \* on a last chunk of one or two bytes
             ELSE IF Len(palette) % 3 # 0 THEN Panic
             ELSE MapPixels(img, palette, num_colors, bitplanes)

(***************************************************************************)
(* main: from_png_file(infile)?, File::create(outfile)?, iff.write(..)?    *)
(***************************************************************************)
FromPngFile ==
    /\ pc = "start"
    /\ LET res == from_png_file(png)
       IN  /\ iff' = res.image
           /\ err' = res.err
           /\ pc' = IF res.tag = "Ok" THEN "built"
                    ELSE IF res.tag = "Err" THEN "failed" ELSE "panicked"
    /\ UNCHANGED <<png, created, ilbm, v_bmhd, v_cmap, v_body, offered, sink>>

\* File::create; FileCreateFirst is the fault of creating the destination
\* before from_png_file has returned
FileCreateFirst ==
    /\ \/ /\ pc = "start"
          /\ ~created
          /\ \/ /\ created' = TRUE
                /\ pc' = pc
                /\ err' = err
             \/ /\ created' = FALSE
                /\ pc' = "failed"
                /\ err' = Error("IoError", << >>)
       \/ /\ pc = "built"
          /\ created
          /\ created' = created
          /\ pc' = "write"
          /\ err' = err
    /\ UNCHANGED <<png, iff, ilbm, v_bmhd, v_cmap, v_body, offered, sink>>

FileCreate ==
    /\ pc = "built"
    /\ \/ /\ created' = TRUE
          /\ pc' = "write"
          /\ err' = err
       \/ /\ created' = FALSE
          /\ pc' = "failed"
          /\ err' = Error("IoError", << >>)
    /\ UNCHANGED <<png, iff, ilbm, v_bmhd, v_cmap, v_body, offered, sink>>

(***************************************************************************)
(* IffImage::write: get_ilbm, then three calls of writer.write.  Each call *)
(* either fails (no byte is taken, `?` returns the error) or returns       *)
(* Ok(n): the writer took the first n bytes.  write drops n.               *)
(***************************************************************************)
Accepts(len) == {len} \cup {n \in 1..MaxShort : n < len}

GetIlbm ==
    /\ pc = "write"
    /\ v_bmhd' = get_bmhd(iff[1])
    /\ v_cmap' = get_cmap(iff[1])
    /\ v_body' = get_body(iff[1])
    /\ ilbm' = get_ilbm(iff[1])
    /\ pc' = "w_form"
    /\ UNCHANGED <<png, iff, err, created, offered, sink>>

WriterWrite(buf, next) ==
    /\ offered' = offered \o buf
    /\ \/ /\ pc' = "failed"
          /\ err' = Error("IoError", << >>)
          /\ sink' = sink
       \/ \E n \in Accepts(Len(buf)) :
          /\ pc' = next
          /\ err' = err
          /\ sink' = sink \o SubSeq(buf, 1, n)
    /\ UNCHANGED <<png, iff, created, ilbm, v_bmhd, v_cmap, v_body>>

WriteForm ==
    /\ pc = "w_form"
    /\ WriterWrite(TagFORM, "w_len")

WriteLen ==
    /\ pc = "w_len"
    /\ WriterWrite(U32BeBytes(AsU32(Len(ilbm))), "w_ilbm")

WriteIlbm ==
    /\ pc = "w_ilbm"
    /\ WriterWrite(ilbm, "done")

(***************************************************************************)
(* The encoder on any record: the records of EncInit are every shape of    *)
(* IffImage within the bounds, not only those from_png_file builds.        *)
(***************************************************************************)
HeaderRests ==
    { [x |-> 0, y |-> 0, masking |-> 0, compression |-> 0, pad1 |-> 0,
       transparent_color |-> 0, x_aspect |-> 0, y_aspect |-> 0,
       page_width |-> 0, page_height |-> 0, ncolors |-> 2],
      [x |-> -1, y |-> -32768, masking |-> 1, compression |-> 2, pad1 |-> 7,
       transparent_color |-> 4660, x_aspect |-> 10, y_aspect |-> 11,
       page_width |-> 320, page_height |-> 200, ncolors |-> 3],
      [x |-> 32767, y |-> 258, masking |-> 255, compression |-> 0, pad1 |-> 0,
       transparent_color |-> 65535, x_aspect |-> 44, y_aspect |-> 52,
       page_width |-> 65535, page_height |-> 1, ncolors |-> 0] }

WideGeometries == { <<258, 1>>, <<4660, 0>>, <<65535, 0>> }

Geometries == { <<w, h>> : w \in 0..MaxWidth, h \in 0..MaxHeight } \cup WideGeometries

\* the header fields at their extremes go with the wide geometries
HeaderRestsOf(g) ==
    IF g \in WideGeometries THEN HeaderRests
    ELSE { rest \in HeaderRests : rest.page_width # 65535 }

PixelPatterns(n) ==
    { [i \in 1..n |-> (p[1] * (i - 1) + p[2]) % 256] :
        p \in { <<1, 0>>, <<85, 3>>, <<37, 128>> } }
    \cup (IF n = 8 THEN { <<0, 1, 0, 1, 0, 1, 0, 1>>, <<0, 1, 2, 2, 1, 0, 0, 1>> }
          ELSE { })

EncColors(n) == [i \in 1..n |-> [r |-> 16 * i, g |-> 255 - i, b |-> i]]

EncImage(g, bp, px, rest) ==
    [bmhd |-> [width |-> g[1], height |-> g[2], x |-> rest.x, y |-> rest.y,
               bitplanes |-> bp, masking |-> rest.masking,
               compression |-> rest.compression, pad1 |-> rest.pad1,
               transparent_color |-> rest.transparent_color,
               x_aspect |-> rest.x_aspect, y_aspect |-> rest.y_aspect,
               page_width |-> rest.page_width, page_height |-> rest.page_height],
     cmap |-> [colors |-> EncColors(rest.ncolors)],
     pixels |-> px]

EncInit ==
    /\ pc = "write"
    /\ png = NoPng
    /\ \E g \in Geometries, bp \in 0..MaxBitplanes :
         \E px \in PixelPatterns(g[1] * g[2]), rest \in HeaderRestsOf(g) :
            iff = Some(EncImage(g, bp, px, rest))
    /\ err = NoErr
    /\ created = TRUE
    /\ ilbm = << >>
    /\ v_bmhd = << >>
    /\ v_cmap = << >>
    /\ v_body = << >>
    /\ offered = << >>
    /\ sink = << >>

EncNext == GetIlbm \/ WriteForm \/ WriteLen \/ WriteIlbm

EncSpec == EncInit /\ [][EncNext]_vars


(***************************************************************************)
(* The decoder's products.  A palette is the PLTE chunk as the decoder     *)
(* keeps it: any number of bytes.  The frame holds one RGB triple a pixel: *)
(* palette colors by index, or a color the palette lacks.                  *)
(***************************************************************************)
\* color i (0-based) of a palette: all distinct, or with equal neighbours
\* and colors that differ in the last channel only
PaletteColor(kind, i) ==
    IF kind = "distinct" THEN << i % 256, 255 - (i % 256), 7 >>
    ELSE << (i \div 3) % 256, 5, (i % 3) \div 2 >>

PaletteBytes(kind, len) ==
    [j \in 1..len |-> PaletteColor(kind, (j - 1) \div 3)[((j - 1) % 3) + 1]]

\* colors no palette holds; the first agrees with a palette color on r and g
AbsentA(kind) == IF kind = "distinct" THEN << 1, 254, 8 >> ELSE << 0, 5, 2 >>

AbsentB == << 200, 200, 200 >>

Flatten(triples) ==
    [j \in 1..(3 * Len(triples)) |-> triples[((j - 1) \div 3) + 1][((j - 1) % 3) + 1]]

\* frames of m pixels over a palette of n >= 1 colors
Frames(kind, n, m) ==
    LET cyc == [i \in 1..m |-> PaletteColor(kind, (i - 1) % n)]
        rev == [i \in 1..m |-> PaletteColor(kind, n - 1 - ((i - 1) % n))]
        fst == [i \in 1..m |-> PaletteColor(kind, 0)]
        bad == [i \in 1..m |-> IF i = 2 THEN AbsentA(kind)
                               ELSE IF i = 3 THEN AbsentB ELSE cyc[i]]
    IN  { Flatten(t) : t \in {cyc, rev, fst, bad} }

PngOf(ct, pal, g, frame, buf) ==
    [open |-> "ok", color_type |-> ct, palette |-> pal,
     width |-> g[1], height |-> g[2], frame |-> frame, buf |-> buf]

IndexedPngs(kind, len, geoms) ==
    LET pal == Some(PaletteBytes(kind, len))
        n == IF len < 3 THEN 1 ELSE len \div 3
    IN  UNION { { PngOf("Indexed", pal, g, "ok", buf) : buf \in Frames(kind, n, g[1] * g[2]) }
                \cup { PngOf("Indexed", pal, g, "decode_error", << >>) }
                : g \in geoms }

Pngs(lens, duplens, geoms) ==
    { [NoPng EXCEPT !.open = o] : o \in {"io_error", "decode_error"} }
    \cup { PngOf(ct, pal, <<1, 1>>, "ok", << 0, 0, 0 >>) :
             ct \in {"RGB", "Grayscale"},
             pal \in {None, Some(PaletteBytes("distinct", 6))} }
    \cup { PngOf("Indexed", None, <<1, 1>>, "ok", << 0, 0, 0 >>) }
    \cup UNION { IndexedPngs("distinct", len, geoms) : len \in lens }
    \cup UNION { IndexedPngs("dups", len, geoms) : len \in duplens }

BuildLens == 0..MaxPaletteLen

BuildGeoms == { <<MaxPixels, 1>> }

SmallLens == 0..(3 * MaxColors)

MainLens == SmallLens \cup {765, 768}

MainGeoms == { <<0, 0>>, <<8, 1>>, <<9, 2>>, <<16, 1>> }

InitWith(inputs) ==
    /\ pc = "start"
    /\ png \in inputs
    /\ iff = None
    /\ err = NoErr
    /\ created = FALSE
    /\ ilbm = << >>
    /\ v_bmhd = << >>
    /\ v_cmap = << >>
    /\ v_body = << >>
    /\ offered = << >>
    /\ sink = << >>

\* a run of the converter
Init == InitWith(Pngs(MainLens, SmallLens, MainGeoms))

Next == FromPngFile \/ FileCreate \/ GetIlbm \/ WriteForm \/ WriteLen \/ WriteIlbm

Spec == Init /\ [][Next]_vars

\* from_png_file alone, over every palette length up to MaxPaletteLen
BuildInit == InitWith(Pngs(BuildLens, SmallLens, BuildGeoms))

BuildNext == FromPngFile

BuildSpec == BuildInit /\ [][BuildNext]_vars

(***************************************************************************)
(* Decoding helpers of the properties: reading a byte vector back.         *)
(***************************************************************************)
Bit(v, k) == (v \div (2 ^ k)) % 2 = 1

U16At(s, off) == s[off + 1] * 256 + s[off + 2]

I16At(s, off) == IF U16At(s, off) >= 32768 THEN U16At(s, off) - 65536 ELSE U16At(s, off)

U32At(s, off) ==
    s[off + 1] * 16777216 + s[off + 2] * 65536 + s[off + 3] * 256 + s[off + 4]

Encoded == pc \in {"w_form", "w_len", "w_ilbm", "done"}

(***************************************************************************)
(* C1: get_body emits row-interleaved bitplanes.  With W8 = width / 8, the *)
(* byte at offset (y*bitplanes + bpl)*W8 + k has bit (7 - bit) set exactly *)
(* when pixel-indices[y*width + k*8 + bit] has bit bpl set: leftmost pixel *)
(* in the most significant bit, the planes of one image row consecutive.   *)
(***************************************************************************)
C1_BodyLayout ==
    Encoded =>
        LET self == iff[1]
            w == self.bmhd.width
            W8 == w \div 8
            bp == self.bmhd.bitplanes
        IN  \A y \in 0..(self.bmhd.height - 1), bpl \in 0..(bp - 1),
               k \in 0..(W8 - 1), bit \in 0..7 :
                Bit(v_body[(y * bp + bpl) * W8 + k + 1], 7 - bit)
                    <=> Bit(self.pixels[y * w + k * 8 + bit + 1], bpl)

\* the two-plane example: indices [0,1,2,2,1,0,0,1] give 01001001, 00110000
C1_Witness ==
    /\ Encoded
    /\ iff[1].bmhd.width = 8 /\ iff[1].bmhd.height = 1 /\ iff[1].bmhd.bitplanes = 2
    /\ iff[1].pixels = <<0, 1, 2, 2, 1, 0, 0, 1>>
    /\ v_body = <<73, 48>>

(***************************************************************************)
(* C2: the BODY payload has length height * bitplanes * (width / 8), also  *)
(* with no bitplane (empty body) and with a width that is no multiple of 8 *)
(* (the remainder columns give no byte).                                   *)
(***************************************************************************)
C2_BodyLength ==
    Encoded =>
        Len(v_body) = iff[1].bmhd.height * iff[1].bmhd.bitplanes
                        * (iff[1].bmhd.width \div 8)

C2_Witness ==
    /\ Encoded
    /\ iff[1].bmhd.width = 17 /\ iff[1].bmhd.height = 2 /\ iff[1].bmhd.bitplanes = 3
    /\ Len(v_body) = 12

(***************************************************************************)
(* C3: get_bmhd emits 20 bytes, the fields in the order width, height, x,  *)
(* y, bitplanes, masking, compression, pad (0), transparent color,         *)
(* x aspect, y aspect, page width, page height, the multi-byte ones        *)
(* big-endian: reading them back at their offsets gives the record's own   *)
(* values.                                                                 *)
(***************************************************************************)
C3_HeaderRoundTrip ==
    Encoded =>
        LET h == iff[1].bmhd
            b == v_bmhd
        IN  /\ Len(b) = 20
            /\ U16At(b, 0) = h.width
            /\ U16At(b, 2) = h.height
            /\ I16At(b, 4) = h.x
            /\ I16At(b, 6) = h.y
            /\ b[9] = h.bitplanes
            /\ b[10] = h.masking
            /\ b[11] = h.compression
            /\ b[12] = 0
            /\ U16At(b, 12) = h.transparent_color
            /\ b[15] = h.x_aspect
            /\ b[16] = h.y_aspect
            /\ U16At(b, 16) = h.page_width
            /\ U16At(b, 18) = h.page_height

C3_Witness ==
    /\ Encoded
    /\ iff[1].bmhd.width = 258 /\ iff[1].bmhd.x = -1 /\ iff[1].bmhd.y = -32768
    /\ iff[1].bmhd.transparent_color = 4660 /\ iff[1].bmhd.pad1 = 7
    /\ SubSeq(v_bmhd, 1, 8) = <<1, 2, 0, 1, 255, 255, 128, 0>>

(***************************************************************************)
(* C4: the bytes write hands to the writer are FORM, the big-endian length *)
(* L, then L bytes: ILBM, then BMHD, CMAP, BODY, each a tag, the           *)
(* big-endian length of its payload and the payload, no pad byte after an  *)
(* odd payload.  L = 4 + (8 + 20) + (8 + 3*colors) + (8 + body length);    *)
(* BMHD is at offset 12, CMAP at 40, the CMAP payload at 48.               *)
(***************************************************************************)
C4_ContainerLayout ==
    pc = "done" =>
        LET s == offered
            n == Len(iff[1].cmap.colors)
            L == 4 + (8 + 20) + (8 + 3 * n) + (8 + Len(v_body))
        IN  /\ Len(s) = 8 + L
            /\ SubSeq(s, 1, 4) = <<70, 79, 82, 77>>
            /\ U32At(s, 4) = L
            /\ SubSeq(s, 9, 12) = <<73, 76, 66, 77>>
            /\ SubSeq(s, 13, 16) = <<66, 77, 72, 68>>
            /\ U32At(s, 16) = 20
            /\ SubSeq(s, 21, 40) = v_bmhd
            /\ SubSeq(s, 41, 44) = <<67, 77, 65, 80>>
            /\ U32At(s, 44) = 3 * n
            /\ Len(v_cmap) = 3 * n
            /\ SubSeq(s, 49, 48 + 3 * n) = v_cmap
            /\ SubSeq(s, 49 + 3 * n, 52 + 3 * n) = <<66, 79, 68, 89>>
            /\ U32At(s, 52 + 3 * n) = Len(v_body)
            /\ SubSeq(s, 57 + 3 * n, Len(s)) = v_body

\* an odd CMAP payload (9 bytes) followed by an odd BODY payload
C4_Witness ==
    /\ pc = "done"
    /\ Len(v_cmap) = 9
    /\ Len(v_body) = 3
    /\ Len(offered) = 68

(***************************************************************************)
(* What the properties of from_png_file read off the decoder's product.    *)
(***************************************************************************)
PaletteLen == Len(png.palette[1])

\* the palette's whole RGB entries and the frame's pixels, as triples
Entries == [i \in 1..(PaletteLen \div 3) |-> SubSeq(png.palette[1], 3 * i - 2, 3 * i)]

InputPixels == [i \in 1..(Len(png.buf) \div 3) |-> SubSeq(png.buf, 3 * i - 2, 3 * i)]

InPalette(pixel) == \E i \in 1..Len(Entries) : Entries[i] = pixel

\* the call came to the pixel lookup: nothing before it ended the call
LookupReached ==
    /\ pc # "start"
    /\ png.open = "ok" /\ png.color_type = "Indexed" /\ png.palette # None
    /\ PaletteLen % 3 = 0 /\ PaletteLen \div 3 \in 1..255
    /\ png.frame = "ok"

ColorOf(c) == << c.r, c.g, c.b >>

(***************************************************************************)
(* C5: from_png_file applies its checks in the order color mode, palette   *)
(* presence, palette emptiness, color count, pixel lookup and returns the  *)
(* error of the first that fails: WrongColorMode for a source that is not  *)
(* indexed, else NoPalette, else EmptyPalette for a palette of zero        *)
(* entries, else TooManyColors(n) for n = palette bytes / 3 > 255, else    *)
(* InvalidPixel for a pixel color the palette lacks; a record only when no *)
(* check fails.                                                            *)
(***************************************************************************)
C5_CheckOrder ==
    (pc # "start" /\ png.open = "ok") =>
        IF png.color_type # "Indexed" THEN pc = "failed" /\ err.kind = "WrongColorType"
        ELSE IF png.palette = None THEN pc = "failed" /\ err.kind = "NoPalette"
        ELSE IF PaletteLen \div 3 = 0 THEN pc = "failed" /\ err.kind = "EmptyPalette"
        ELSE IF PaletteLen \div 3 > 255
             THEN pc = "failed" /\ err = Error("TooManyColors", << PaletteLen \div 3 >>)
        ELSE IF png.frame # "ok" THEN pc = "failed" /\ err.kind = "PngDecodeError"
        ELSE IF \E i \in 1..Len(InputPixels) : ~InPalette(InputPixels[i])
             THEN pc = "failed" /\ err.kind = "InvalidPixel"
        ELSE pc # "failed"

(***************************************************************************)
(* C6: a decode error or a convert error is found before any output: the   *)
(* destination is created and written only after from_png_file returned a *)
(* record, so a run ending in such an error has neither created nor        *)
(* written the output file, and the error ends the run (nothing follows).  *)
(***************************************************************************)
ConvertErrors ==
    {"PngDecodeError", "WrongColorType", "NoPalette", "EmptyPalette",
     "TooManyColors", "InvalidPixel"}

C6_ErrorsBeforeOutput ==
    /\ created => iff # None
    /\ offered # << >> => created
    /\ sink # << >> => created
    /\ (pc = "failed" /\ err.kind \in ConvertErrors) =>
            ~created /\ offered = << >> /\ sink = << >>
    /\ pc = "failed" => ~ENABLED Next

C6_Witness ==
    /\ pc = "failed"
    /\ err.kind = "InvalidPixel"
    /\ ~created

(***************************************************************************)
(* C7: for an accepted palette of n colors, n in 1..255, the bitplane      *)
(* count of the record is the least b with 2^b >= n; it is 0, 1, 2, 2, 3,  *)
(* 8 for n = 1, 2, 3, 4, 5, 255, and never more than 8.                    *)
(***************************************************************************)
C7_BitplaneCount ==
    pc = "built" =>
        LET n == PaletteLen \div 3
            b == iff[1].bmhd.bitplanes
        IN  /\ n \in 1..255
            /\ b \in 0..8
            /\ 2 ^ b >= n
            /\ \A c \in 0..(b - 1) : 2 ^ c < n
            /\ n = 1 => b = 0
            /\ n = 2 => b = 1
            /\ n \in {3, 4} => b = 2
            /\ n = 5 => b = 3
            /\ n = 255 => b = 8

C7_Witness ==
    /\ pc = "built"
    /\ PaletteLen \div 3 = 255
    /\ iff[1].bmhd.bitplanes = 8

(***************************************************************************)
(* C8: a record from_png_file returns has palette bytes / 3 colors, from 1 *)
(* to 255, and get_cmap emits 3 bytes a color: R, G, B of each entry in    *)
(* palette order.                                                          *)
(***************************************************************************)
C8_PaletteLength ==
    /\ pc = "built" =>
        /\ Len(iff[1].cmap.colors) = PaletteLen \div 3
        /\ Len(iff[1].cmap.colors) \in 1..255
    /\ (Encoded /\ png.open = "ok") =>
        LET colors == iff[1].cmap.colors
        IN  /\ Len(colors) = PaletteLen \div 3
            /\ Len(colors) \in 1..255
            /\ Len(v_cmap) = 3 * Len(colors)
            /\ \A i \in 1..Len(colors) :
                  SubSeq(v_cmap, 3 * i - 2, 3 * i) = ColorOf(colors[i])
            /\ v_cmap = png.palette[1]

C8_Witness ==
    /\ Encoded
    /\ png.open = "ok"
    /\ Len(iff[1].cmap.colors) = 255
    /\ Len(v_cmap) = 765

(***************************************************************************)
(* C9: the lookup maps each pixel to the index of the first palette entry  *)
(* equal to it on the three channels, and a pixel without one makes        *)
(* from_png_file fail with InvalidPixel(r,g,b); a returned record has one  *)
(* index a pixel, in input order, each below the palette length and        *)
(* naming the pixel's color.                                               *)
(***************************************************************************)
C9_PixelLookup ==
    /\ pc = "built" =>
        LET colors == iff[1].cmap.colors
            pixels == iff[1].pixels
        IN  /\ Len(pixels) = Len(InputPixels)
            /\ \A i \in 1..Len(pixels) :
                  /\ pixels[i] < Len(colors)
                  /\ ColorOf(colors[pixels[i] + 1]) = InputPixels[i]
                  /\ \A j \in 1..pixels[i] : ColorOf(colors[j]) # InputPixels[i]
    /\ (LookupReached /\ \E i \in 1..Len(InputPixels) : ~InPalette(InputPixels[i])) =>
        /\ pc = "failed"
        /\ err.kind = "InvalidPixel"
        /\ \E i \in 1..Len(InputPixels) :
              InputPixels[i] = err.arg /\ ~InPalette(InputPixels[i])
    /\ (LookupReached /\ \A i \in 1..Len(InputPixels) : InPalette(InputPixels[i])) =>
        pc = "built"

\* a palette with equal colors: the pixel of entry 1's color gets index 0
C9_Witness ==
    /\ pc = "built"
    /\ Len(iff[1].cmap.colors) >= 3
    /\ ColorOf(iff[1].cmap.colors[1]) = ColorOf(iff[1].cmap.colors[2])
    /\ InputPixels[2] = ColorOf(iff[1].cmap.colors[2])
    /\ iff[1].pixels[2] = 0
    /\ iff[1].pixels[3] = 2

(***************************************************************************)
(* C10: when write returns Ok, the writer has taken the whole container:   *)
(* FORM, the length, the inner content, 8 + L bytes in order, also when it *)
(* takes fewer bytes than offered in a call.                               *)
(***************************************************************************)
C10_SuccessMeansComplete ==
    pc = "done" =>
        /\ Len(sink) = 8 + Len(ilbm)
        /\ sink = TagFORM \o U32BeBytes(AsU32(Len(ilbm))) \o ilbm

=============================================================================
